---- MODULE Spec2Model ----
(***************************************************************************)
(* Model of the alx-polly request pipeline: the validation layer, the poll *)
(* command layer (createPoll, updatePoll, deletePoll, submitVote) over the *)
(* polls and votes tables, and the edge middleware (rate limiter, session  *)
(* checks, security headers).                                              *)
(*                                                                         *)
(* JavaScript strings are sequences of one-character strings, so that      *)
(* trimming, lower-casing and HTML escaping are computed, not assumed.     *)
(***************************************************************************)
EXTENDS Integers, Sequences, FiniteSets, Bags, TLC

VARIABLES
    users,           \* identity provider: user id -> [is_admin]
    polls,           \* polls table: poll id -> row
    votes,           \* votes table: bag of rows [poll_id, user_id, option_index]
    nextPollId,      \* ids already handed out by gen_random_uuid() are never reused
    calls,           \* server actions in flight, one per slot, between two awaits
    last,            \* the server action that returned most recently, with its result
    rateLimitStore,  \* middleware: ip key -> [count, resetTime], or NoRecord
    handled,         \* per ip key: requests handled since its window was opened
    now,             \* Date.now(), in milliseconds
    resp,            \* the response updateSession returned most recently
    text,            \* a string handed to sanitizeHtml, and what came back
    applied,         \* how many times sanitizeHtml has been applied to it
    passed           \* rate limiter on its own: ip -> time -> requests let pass then

vars == <<users, polls, votes, nextPollId, calls, last, rateLimitStore, handled, now, resp,
          text, applied, passed>>

pollVars == <<users, polls, votes, nextPollId, calls, last>>
mwVars == <<rateLimitStore, handled, resp>>
fnVars == <<text, applied, passed>>

(***************************************************************************)
(* Bounds of the model.                                                    *)
(***************************************************************************)
MaxPolls == 1
MaxVotes == 2
MaxCalls == 2
MaxTicks == 1
MaxOver == 1
MaxOther == 1
MaxLen == 2
MaxApply == 2

Null == "null"

(***************************************************************************)
(* Strings.                                                                *)
(***************************************************************************)
UpperChars == <<"A","B","C","D","E","F","G","H","I","J","K","L","M",
                "N","O","P","Q","R","S","T","U","V","W","X","Y","Z">>
LowerChars == <<"a","b","c","d","e","f","g","h","i","j","k","l","m",
                "n","o","p","q","r","s","t","u","v","w","x","y","z">>

IsWhitespace(c) == c = " "

toLowerCaseChar(c) ==
    IF \E i \in DOMAIN UpperChars : UpperChars[i] = c
    THEN LowerChars[CHOOSE i \in DOMAIN UpperChars : UpperChars[i] = c]
    ELSE c

toLowerCase(s) == [i \in DOMAIN s |-> toLowerCaseChar(s[i])]

RECURSIVE trimStart(_)
trimStart(s) ==
    IF s = <<>> THEN <<>>
    ELSE IF IsWhitespace(Head(s)) THEN trimStart(Tail(s)) ELSE s

RECURSIVE trimEnd(_)
trimEnd(s) ==
    IF s = <<>> THEN <<>>
    ELSE IF IsWhitespace(s[Len(s)]) THEN trimEnd(SubSeq(s, 1, Len(s) - 1)) ELSE s

trim(s) == trimEnd(trimStart(s))

escapeMap(c) ==
    CASE c = "<"  -> <<"&","l","t",";">>
      [] c = ">"  -> <<"&","g","t",";">>
      [] c = "\"" -> <<"&","q","u","o","t",";">>
      [] c = "'"  -> <<"&","#","x","2","7",";">>
      [] c = "&"  -> <<"&","a","m","p",";">>
      [] OTHER    -> <<c>>

\* input.replace(/[<>"'&]/g, ...): every character by its entity, the halves of
\* the string one after the other
RECURSIVE replaceSpecial(_)
replaceSpecial(s) ==
    IF s = <<>> THEN <<>>
    ELSE IF Len(s) = 1 THEN escapeMap(s[1])
    ELSE LET half == Len(s) \div 2
         IN  replaceSpecial(SubSeq(s, 1, half)) \o replaceSpecial(SubSeq(s, half + 1, Len(s)))

sanitizeHtml(input) == trim(replaceSpecial(input))

sanitizeArray(arr) ==
    SelectSeq([i \in DOMAIN arr |-> sanitizeHtml(arr[i])], LAMBDA item : Len(item) > 0)

(***************************************************************************)
(* FormData and the values validateFormData builds from it.                *)
(***************************************************************************)
Str(s) == [t |-> "str", v |-> s]
Arr(a) == [t |-> "arr", v |-> a]
Bool(b) == [t |-> "bool", v |-> b]

Entry(k, s) == [key |-> k, value |-> s]

\* key.endsWith('[]') and key.slice(0, -2), for the keys the forms use
EndsWithBrackets(key) == key = "options[]"
SliceBrackets(key) == IF key = "options[]" THEN "options" ELSE key

IsBooleanField(key) == key \in {"allowMultipleVotes", "requireAuthentication"}

sTrue == <<"t","r","u","e">>
sOn == <<"o","n">>

\* JavaScript truthiness of a raw value (the test !rawData[arrayKey])
Truthy(raw, key) ==
    /\ key \in DOMAIN raw
    /\ CASE raw[key].t = "str"  -> raw[key].v # <<>>
         [] raw[key].t = "bool" -> raw[key].v
         [] OTHER               -> TRUE

EmptyRaw == [k \in {} |-> Str(<<>>)]

Put(raw, key, val) == [k \in DOMAIN raw \cup {key} |-> IF k = key THEN val ELSE raw[k]]

\* One pass of the loop over formData.entries(); thrown models the TypeError
\* of push on a value that is not an array
RECURSIVE ConvertEntries(_, _)
ConvertEntries(entries, acc) ==
    IF entries = <<>> \/ acc.thrown THEN acc
    ELSE LET e == Head(entries)
             raw == acc.raw
         IN  IF EndsWithBrackets(e.key)
             THEN LET arrayKey == SliceBrackets(e.key)
                      raw1 == IF Truthy(raw, arrayKey) THEN raw ELSE Put(raw, arrayKey, Arr(<<>>))
                  IN  IF raw1[arrayKey].t = "arr"
                      THEN ConvertEntries(Tail(entries),
                               [thrown |-> FALSE,
                                raw |-> Put(raw1, arrayKey, Arr(Append(raw1[arrayKey].v, e.value)))])
                      ELSE [thrown |-> TRUE, raw |-> raw1]
             ELSE IF IsBooleanField(e.key)
             THEN ConvertEntries(Tail(entries),
                      [thrown |-> FALSE,
                       raw |-> Put(raw, e.key, Bool(e.value = sTrue \/ e.value = sOn))])
             ELSE ConvertEntries(Tail(entries),
                      [thrown |-> FALSE, raw |-> Put(raw, e.key, Str(e.value))])

FormToRaw(formData) == ConvertEntries(formData, [thrown |-> FALSE, raw |-> EmptyRaw])

\* FormData.set: the first entry of that name takes the value and the other
\* entries of that name are removed; a new name is appended
FormDataSet(formData, key, value) ==
    IF \E i \in DOMAIN formData : formData[i].key = key
    THEN LET first == CHOOSE i \in DOMAIN formData :
                          /\ formData[i].key = key
                          /\ \A j \in 1..(i - 1) : formData[j].key # key
             keep == SelectSeq([i \in DOMAIN formData |->
                                   IF i = first THEN Entry(key, value)
                                   ELSE IF formData[i].key = key THEN Entry("", <<>>)
                                   ELSE formData[i]],
                               LAMBDA e : e.key # "")
         IN  keep
    ELSE Append(formData, Entry(key, value))

(***************************************************************************)
(* Zod schemas. A parse yields the issues in the order zod raises them,    *)
(* whether parsing was aborted (wrong type), and the parsed value.         *)
(***************************************************************************)
OPTION_MAX_LEN == 200
QUESTION_MIN_LEN == 5
QUESTION_MAX_LEN == 500
OPTIONS_MIN == 2
OPTIONS_MAX == 10
OPTION_INDEX_MAX == 9

Parsed(iss, ab, val) == [issues |-> iss, aborted |-> ab, value |-> val]

If(cond, msg) == IF cond THEN <<msg>> ELSE <<>>

TypeName(v) == IF v.t = "str" THEN "string" ELSE IF v.t = "arr" THEN "array" ELSE "boolean"

\* pollOptionSchema: min(1), max(200), trim, refine(not empty)
pollOptionSchema(s) ==
    Parsed(If(Len(s) < 1, "Option cannot be empty")
             \o If(Len(s) > OPTION_MAX_LEN, "Option must be less than 200 characters")
             \o If(~(Len(trim(s)) > 0), "Option cannot be only whitespace"),
           FALSE, trim(s))

RECURSIVE FlattenIssues(_)
FlattenIssues(parsedSeq) ==
    IF parsedSeq = <<>> THEN <<>>
    ELSE Head(parsedSeq).issues \o FlattenIssues(Tail(parsedSeq))

\* the uniqueness refinement left out
AllOptionsUniqueUnchecked(options) == TRUE

\* the refine of the options array: new Set(options.map(lower, trim)).size === options.length
AllOptionsUnique(options) ==
    Cardinality({trim(toLowerCase(options[i])) : i \in DOMAIN options}) = Len(options)

\* z.array(pollOptionSchema).min(2).max(10).refine(unique)
optionsSchema(raw) ==
    IF "options" \notin DOMAIN raw THEN Parsed(<<"Required">>, TRUE, <<>>)
    ELSE IF raw["options"].t # "arr"
    THEN Parsed(<<"Expected array, received " \o TypeName(raw["options"])>>, TRUE, <<>>)
    ELSE LET arr == raw["options"].v
             items == [i \in DOMAIN arr |-> pollOptionSchema(arr[i])]
             value == [i \in DOMAIN arr |-> items[i].value]
         IN  Parsed(If(Len(arr) < OPTIONS_MIN, "At least 2 options are required")
                      \o If(Len(arr) > OPTIONS_MAX, "Maximum 10 options allowed")
                      \o FlattenIssues(items)
                      \o If(~AllOptionsUnique(value), "All options must be unique"),
                    FALSE, value)

\* the question of createPollSchema (refined) and of updatePollSchema (not refined)
questionSchema(raw, refined) ==
    IF "question" \notin DOMAIN raw THEN Parsed(<<"Required">>, TRUE, <<>>)
    ELSE IF raw["question"].t # "str"
    THEN Parsed(<<"Expected string, received " \o TypeName(raw["question"])>>, TRUE, <<>>)
    ELSE LET s == raw["question"].v
         IN  Parsed(If(Len(s) < 1, "Question is required")
                      \o If(Len(s) < QUESTION_MIN_LEN, "Question must be at least 5 characters")
                      \o If(Len(s) > QUESTION_MAX_LEN, "Question must be less than 500 characters")
                      \o If(refined /\ ~(Len(trim(s)) > 0), "Question cannot be only whitespace"),
                    FALSE, trim(s))

\* z.boolean().optional().default(d)
booleanSchema(raw, key, d) ==
    IF key \notin DOMAIN raw THEN Parsed(<<>>, FALSE, d)
    ELSE IF raw[key].t # "bool"
    THEN Parsed(<<"Expected boolean, received " \o TypeName(raw[key])>>, TRUE, d)
    ELSE Parsed(<<>>, FALSE, raw[key].v)

\* Poll identifiers. A well-formed UUID is modelled by the token "uuid" and a digit.
Digits == <<"1","2","3","4","5","6","7","8","9">>
Uuid(n) == <<"u","u","i","d",Digits[n]>>
BadId == <<"4","2">>

IsUuid(s) == \E n \in DOMAIN Digits : s = Uuid(n)

\* uuidSchema.safeParse(id).success
uuidSchema(id) == IsUuid(id)

pollIdFieldSchema(raw) ==
    IF "pollId" \notin DOMAIN raw THEN Parsed(<<"Required">>, TRUE, <<>>)
    ELSE IF raw["pollId"].t # "str"
    THEN Parsed(<<"Expected string, received " \o TypeName(raw["pollId"])>>, TRUE, <<>>)
    ELSE Parsed(If(~IsUuid(raw["pollId"].v), "Invalid poll ID format"), FALSE, raw["pollId"].v)

createPollSchema(raw) ==
    LET q == questionSchema(raw, TRUE)
        o == optionsSchema(raw)
        a == booleanSchema(raw, "allowMultipleVotes", FALSE)
        r == booleanSchema(raw, "requireAuthentication", TRUE)
    IN  Parsed(q.issues \o o.issues \o a.issues \o r.issues,
               q.aborted \/ o.aborted \/ a.aborted \/ r.aborted,
               [question |-> q.value, options |-> o.value,
                allowMultipleVotes |-> a.value, requireAuthentication |-> r.value])

updatePollSchema(raw) ==
    LET p == pollIdFieldSchema(raw)
        q == questionSchema(raw, FALSE)
        o == optionsSchema(raw)
    IN  Parsed(p.issues \o q.issues \o o.issues,
               p.aborted \/ q.aborted \/ o.aborted,
               [pollId |-> p.value, question |-> q.value, options |-> o.value])

\* submitVoteSchema: pollId uuid, optionIndex an integer in 0..9
submitVoteSchema(pollId, optionIndex) ==
    Parsed(If(~IsUuid(pollId), "Invalid poll ID format")
             \o If(optionIndex < 0, "Option index must be non-negative")
             \o If(optionIndex > OPTION_INDEX_MAX, "Option index cannot exceed 9"),
           FALSE, [pollId |-> pollId, optionIndex |-> optionIndex])

\* validateFormData(schema, formData) for the two poll schemas:
\* [success, data, firstError], firstError being Object.values(errors)[0][0]
Validated(parsed) ==
    IF parsed.issues = <<>>
    THEN [success |-> TRUE, data |-> parsed.value, firstError |-> Null]
    ELSE [success |-> FALSE, data |-> parsed.value, firstError |-> Head(parsed.issues)]

\* character classes of the regular expressions
IsLower(c) == \E i \in DOMAIN LowerChars : LowerChars[i] = c
IsUpper(c) == \E i \in DOMAIN UpperChars : UpperChars[i] = c
IsLetter(c) == IsLower(c) \/ IsUpper(c)
IsDigit(c) == c \in {"0","1","2","3","4","5","6","7","8","9"}
IsAlnum(c) == IsLetter(c) \/ IsDigit(c)
IsPasswordSpecial(c) == c \in {"@", "$", "!", "%", "*", "?", "&"}

NAME_MIN_LEN == 2
NAME_MAX_LEN == 100
EMAIL_MAX_LEN == 255
PASSWORD_MIN_LEN == 8
PASSWORD_MAX_LEN == 128
LOGIN_PASSWORD_MIN_LEN == 6
TLD_MIN_LEN == 2
FAVICON_DOT == 8
FAVICON_LEN == 11

\* /^[a-zA-Z\s'-]+$/
NameRegex(s) ==
    s # <<>> /\ \A i \in DOMAIN s : IsLetter(s[i]) \/ IsWhitespace(s[i]) \/ s[i] \in {"'", "-"}

\* /^(?=.*[a-z])(?=.*[A-Z])(?=.*\d)(?=.*[@$!%*?&])[A-Za-z\d@$!%*?&]/
PasswordRegex(s) ==
    /\ \E i \in DOMAIN s : IsLower(s[i])
    /\ \E i \in DOMAIN s : IsUpper(s[i])
    /\ \E i \in DOMAIN s : IsDigit(s[i])
    /\ \E i \in DOMAIN s : IsPasswordSpecial(s[i])
    /\ s # <<>> /\ (IsAlnum(s[1]) \/ IsPasswordSpecial(s[1]))

\* the part of an address after the @: labels that begin with a letter or
\* digit and go on with letters, digits and hyphens, each followed by a dot,
\* then two letters or more
IsEmailDomain(d) ==
    LET dots == {i \in DOMAIN d : d[i] = "."}
    IN  /\ dots # {}
        /\ LET lastDot == CHOOSE i \in dots : \A j \in dots : j <= i
           IN  /\ Len(d) - lastDot >= TLD_MIN_LEN
               /\ \A i \in (lastDot + 1)..Len(d) : IsLetter(d[i])
               /\ \A i \in 1..lastDot : IsAlnum(d[i]) \/ d[i] \in {"-", "."}
               /\ IsAlnum(d[1])
               /\ \A i \in dots : i < lastDot => IsAlnum(d[i + 1])

\* z.string().email(): the address has the shape local@domain
IsEmail(s) ==
    \E k \in DOMAIN s :
        /\ s[k] = "@"
        /\ LET local == SubSeq(s, 1, k - 1)
               domain == SubSeq(s, k + 1, Len(s))
           IN  /\ local # <<>>
               /\ \A i \in DOMAIN local :
                     IsAlnum(local[i]) \/ local[i] \in {"_", "'", "+", "-", "."}
               /\ local[1] # "."
               /\ \A i \in 1..(Len(s) - 1) : ~(s[i] = "." /\ s[i + 1] = ".")
               /\ IsAlnum(local[Len(local)]) \/ local[Len(local)] \in {"_", "+", "-"}
               /\ IsEmailDomain(domain)

emailSchema(email) ==
    If(email = <<>>, "Email is required")
    \o If(~IsEmail(email), "Please enter a valid email address")
    \o If(Len(email) > EMAIL_MAX_LEN, "Email must be less than 255 characters")

\* loginSchema.safeParse(data); keys the schema does not name are stripped
loginSchema(data) ==
    Parsed(emailSchema(data.email)
             \o If(data.password = <<>>, "Password is required")
             \o If(Len(data.password) < LOGIN_PASSWORD_MIN_LEN,
                   "Password must be at least 6 characters")
             \o If(Len(data.password) > PASSWORD_MAX_LEN,
                   "Password must be less than 128 characters"),
           FALSE, [email |-> data.email, password |-> data.password])

\* registerSchema.safeParse(data); keys the schema does not name are stripped
registerSchema(data) ==
    Parsed(If(data.name = <<>>, "Name is required")
             \o If(Len(data.name) < NAME_MIN_LEN, "Name must be at least 2 characters")
             \o If(Len(data.name) > NAME_MAX_LEN, "Name must be less than 100 characters")
             \o If(~NameRegex(data.name),
                   "Name can only contain letters, spaces, hyphens, and apostrophes")
             \o emailSchema(data.email)
             \o If(Len(data.password) < PASSWORD_MIN_LEN,
                   "Password must be at least 8 characters")
             \o If(Len(data.password) > PASSWORD_MAX_LEN,
                   "Password must be less than 128 characters")
             \o If(~PasswordRegex(data.password),
                   "Password must contain at least one uppercase letter, one lowercase letter, one number, and one special character"),
           FALSE, [name |-> data.name, email |-> data.email, password |-> data.password])

validateFormData(schema, formData) ==
    LET conv == FormToRaw(formData)
    IN  IF conv.thrown
        THEN [success |-> FALSE, data |-> Null, firstError |-> "Invalid form data"]
        ELSE IF schema = "createPollSchema" THEN Validated(createPollSchema(conv.raw))
        ELSE Validated(updatePollSchema(conv.raw))

(***************************************************************************)
(* The identity provider. A request is made with one of these sessions:    *)
(* a signed-in user, no session, or a session the provider fails on.       *)
(***************************************************************************)
UserIds == {"alice", "bob", "root"}
NoUser == "none"
AuthError == "autherror"
Callers == UserIds \cup {NoUser, AuthError}

ProviderMessage == "Auth provider error"

\* supabase.auth.getUser(): { data: { user }, error }
getUser(caller) ==
    IF caller \in UserIds THEN [user |-> caller, error |-> Null]
    ELSE IF caller = AuthError THEN [user |-> NoUser, error |-> ProviderMessage]
    ELSE [user |-> NoUser, error |-> Null]

\* getCurrentUser(): data.user, the error is dropped
getCurrentUser(caller) == getUser(caller).user

\* isUserAdmin(userId): when userId is given the current user is not consulted
\* for the id, and the flag read is the one of the provider's current user
isUserAdmin(userId, caller, us) ==
    IF userId = NoUser /\ getCurrentUser(caller) = NoUser THEN FALSE
    ELSE LET user == getUser(caller).user
         IN  user # NoUser /\ us[user].is_admin = TRUE

\* the accounts of the provider: the users the poll layer is called by, who
\* exist from the start, and one address that is free to register
NewAccounts == {"carol"}
Accounts == UserIds \cup NewAccounts
Address(c) == <<c, "@", "x", ".", "i", "o">>
EmailOf ==
    [a \in Accounts |->
        CASE a = "alice" -> Address("a") [] a = "bob" -> Address("b")
          [] a = "root" -> Address("r") [] a = "carol" -> Address("c")]
HasAccount(email) == \E a \in Accounts : EmailOf[a] = email
AccountOf(email) == CHOOSE a \in Accounts : EmailOf[a] = email
nAl == <<"A", "l">>

\* user_metadata of a user: the name, and whether is_admin is there and true
Metadata(name, is_admin) == [name |-> name, is_admin |-> is_admin]

\* the users that exist before the application runs; is_admin is set for root,
\* in the provider's dashboard
InitialUsers == [u \in UserIds |-> Metadata(nAl, u = "root")]

\* the answers of the provider that do not follow from its users: whether the
\* auth.users table can be read through the data API, an error of signUp or
\* signInWithPassword other than the ones the users decide, and whether the
\* password is the account's
Env(usersReadable, failure, passwordMatches) ==
    [usersReadable |-> usersReadable, failure |-> failure, passwordMatches |-> passwordMatches]

\* from("auth.users").select("email").eq("email", email).single(): TRUE when a row came back
existingUser(email, us, env) ==
    env.usersReadable /\ HasAccount(email) /\ AccountOf(email) \in DOMAIN us

\* supabase.auth.signUp({email, password, options: {data}})
signUp(email, data, us, env) ==
    IF env.failure # Null THEN [error |-> env.failure, users |-> us]
    ELSE IF ~HasAccount(email) THEN [error |-> "Signups not allowed for this address", users |-> us]
    ELSE IF AccountOf(email) \in DOMAIN us THEN [error |-> "User already registered", users |-> us]
    ELSE [error |-> Null,
          users |-> [u \in DOMAIN us \cup {AccountOf(email)} |->
                        IF u \in DOMAIN us THEN us[u] ELSE data]]

\* supabase.auth.signInWithPassword({email, password}): the error message
signInWithPassword(email, us, env) ==
    IF env.failure # Null THEN env.failure
    ELSE IF ~HasAccount(email) \/ AccountOf(email) \notin DOMAIN us \/ ~env.passwordMatches
    THEN "Invalid login credentials"
    ELSE Null

\* error.message.includes(...) for the messages of the provider
Includes(message, part) ==
    CASE part = "already registered" -> message = "User already registered"
      [] part = "Password" -> message = "Password is known to be weak and easy to guess"
      [] part = "Invalid login credentials" -> message = "Invalid login credentials"

pwGood == <<"A", "a", "1", "!", "a", "a", "a", "a">>
pwWeak == <<"a", "a", "a", "a", "a", "a", "a", "a">>
pwShort == <<"a">>
nA == <<"A">>
nTag == <<"<", "b", ">">>
eBad == <<"c", "@", "x">>

\* what a client sends to register: the three fields, and is_admin: true or not
RegisterData(name, email, password, is_admin) ==
    [name |-> name, email |-> email, password |-> password, is_admin |-> is_admin]
RegisterInputs ==
    {RegisterData(nAl, Address("c"), pwGood, a) : a \in BOOLEAN}
    \cup {RegisterData(n, Address("c"), pwGood, TRUE) : n \in {nA, nTag, <<" ">> \o nAl}}
    \cup {RegisterData(nAl, e, pwGood, TRUE) : e \in {Address("C"), Address("a"), eBad}}
    \cup {RegisterData(nAl, Address("c"), pwWeak, TRUE)}

LoginData(email, password) == [email |-> email, password |-> password]
LoginInputs ==
    {LoginData(e, pwGood) : e \in {Address("a"), Address("c"), eBad, <<>>}}
    \cup {LoginData(Address("a"), pwShort)}

\* the provider as register meets it, and as login meets it
RegisterEnvs ==
    {Env(r, Null, TRUE) : r \in BOOLEAN}
    \cup {Env(FALSE, f, TRUE) : f \in {"Password is known to be weak and easy to guess",
                                       "Database error saving new user"}}
LoginEnvs ==
    {Env(FALSE, Null, m) : m \in BOOLEAN} \cup {Env(FALSE, "Email not confirmed", TRUE)}

\* the validations of the inputs, computed once
RegisterValidation == [data \in RegisterInputs |-> Validated(registerSchema(data))]
LoginValidation == [data \in LoginInputs |-> Validated(loginSchema(data))]
Sanitized ==
    [data \in RegisterInputs \cup LoginInputs |->
        sanitizeHtml(trim(toLowerCase(data.email)))]

\* every key of the submitted data copied into the metadata
signUpDataSpread(sanitizedName, data) == Metadata(sanitizedName, data.is_admin)

\* options.data of signUp: { name: sanitizedName }; there is no is_admin key
signUpData(sanitizedName, data) == Metadata(sanitizedName, FALSE)

\* register(data)
register(data, us, env) ==
    LET validation == RegisterValidation[data]
        sanitizedEmail == Sanitized[data]
        sanitizedName == sanitizeHtml(trim(validation.data.name))
        created == signUp(sanitizedEmail, signUpData(sanitizedName, data), us, env)
    IN  IF ~validation.success THEN [error |-> validation.firstError, users |-> us]
        ELSE IF existingUser(sanitizedEmail, us, env)
        THEN [error |-> "An account with this email already exists", users |-> us]
        ELSE IF created.error = Null THEN [error |-> Null, users |-> created.users]
        ELSE IF Includes(created.error, "already registered")
        THEN [error |-> "An account with this email already exists", users |-> us]
        ELSE IF Includes(created.error, "Password")
        THEN [error |-> "Password does not meet security requirements", users |-> us]
        ELSE [error |-> "Registration failed. Please try again.", users |-> us]

\* the provider's message handed on as it is
loginErrorProviderText(message) == message

\* the error login returns for an error of signInWithPassword
loginError(message) ==
    IF Includes(message, "Invalid login credentials") THEN "Invalid email or password"
    ELSE "Login failed. Please try again."

\* login(data): the error it returns
login(data, us, env) ==
    LET validation == LoginValidation[data]
        sanitizedEmail == Sanitized[data]
        error == signInWithPassword(sanitizedEmail, us, env)
    IN  IF ~validation.success THEN validation.firstError
        ELSE IF error = Null THEN Null
        ELSE loginError(error)

\* logout(): the error it returns; signOutError is the provider's
logout(signOutError) == signOutError

(***************************************************************************)
(* The data store: polls and votes tables with the constraints of the      *)
(* schema (votes.poll_id references polls(id) on delete cascade, and       *)
(* unique (poll_id, user_id), in which NULL user ids never collide).       *)
(***************************************************************************)
VoteRow(p, u, i) == [poll_id |-> p, user_id |-> u, option_index |-> i]

VotesOf(vs, p) == {v \in BagToSet(vs) : v.poll_id = p}
VotesBy(vs, p, u) == {v \in BagToSet(vs) : v.poll_id = p /\ v.user_id = u}

RECURSIVE SumCopies(_, _)
SumCopies(vs, rows) ==
    IF rows = {} THEN 0
    ELSE LET r == CHOOSE x \in rows : TRUE
         IN  CopiesIn(r, vs) + SumCopies(vs, rows \ {r})

\* number of vote rows of user u on poll p
CountVotesBy(vs, p, u) == SumCopies(vs, VotesBy(vs, p, u))
CountVotes(vs) == SumCopies(vs, BagToSet(vs))

\* a store whose votes.poll_id does not reference polls
ForeignKeyOff(ps, row) == TRUE

ForeignKeyOk(ps, row) == row.poll_id \in DOMAIN ps

\* a store without UNIQUE(poll_id, user_id)
UniqueOff(vs, row) == TRUE

UniqueOk(vs, row) == row.user_id = NoUser \/ VotesBy(vs, row.poll_id, row.user_id) = {}

\* from("votes").insert([row])
InsertVote(ps, vs, row) ==
    IF ~ForeignKeyOk(ps, row)
    THEN [error |-> "violates foreign key constraint", votes |-> vs]
    ELSE IF ~UniqueOk(vs, row)
    THEN [error |-> "duplicate key value violates unique constraint", votes |-> vs]
    ELSE [error |-> Null, votes |-> vs (+) SetToBag({row})]

WithoutVotesOf(vs, p) ==
    LET keep == {v \in BagToSet(vs) : v.poll_id # p}
    IN  [v \in keep |-> vs[v]]

\* from("votes").delete().eq("poll_id", id)
DeleteVotes(vs, id) == WithoutVotesOf(vs, id)

\* a delete whose filter matches no row
DeletePollRowNoMatch(ps, vs, id) == [polls |-> ps, votes |-> vs]

\* from("polls").delete().eq("id", id), with the cascade to votes
DeletePollRow(ps, vs, id) ==
    [polls |-> [p \in DOMAIN ps \ {id} |-> ps[p]], votes |-> WithoutVotesOf(vs, id)]

\* from("polls").insert([row]): the store gives the id and the timestamps
InsertPoll(ps, id, row, t) ==
    [p \in DOMAIN ps \cup {id} |->
        IF p = id
        THEN [user_id |-> row.user_id, question |-> row.question, options |-> row.options,
              allow_multiple_votes |-> row.allow_multiple_votes,
              require_authentication |-> row.require_authentication,
              created_at |-> t, updated_at |-> t]
        ELSE ps[p]]

\* an update that writes the whole row, the flags at their defaults
UpdatePollRowWhole(ps, id, q, opts, t) ==
    [p \in DOMAIN ps |->
        IF p = id
        THEN [ps[p] EXCEPT !.question = q, !.options = opts, !.updated_at = t,
                           !.allow_multiple_votes = FALSE, !.require_authentication = TRUE]
        ELSE ps[p]]

\* from("polls").update({question, options, updated_at}).eq("id", id)
UpdatePollRow(ps, id, q, opts, t) ==
    [p \in DOMAIN ps |->
        IF p = id
        THEN [ps[p] EXCEPT !.question = q, !.options = opts, !.updated_at = t]
        ELSE ps[p]]

\* the copy of the submitted form into formDataWithId
RECURSIVE CopyEntries(_, _)
CopyEntries(entries, target) ==
    IF entries = <<>> THEN target
    ELSE CopyEntries(Tail(entries), FormDataSet(target, Head(entries).key, Head(entries).value))

FormDataWithId(pollId, formData) == CopyEntries(formData, <<Entry("pollId", pollId)>>)

(***************************************************************************)
(* Inputs.                                                                 *)
(***************************************************************************)
qBest == <<"B","e","s","t","?">>
sGo == <<"G","o">>
sgo == <<"g","o">>
sRust == <<"R","u","s","t">>
sZig == <<"Z","i","g">>
sFalse == <<"f","a","l","s","e">>

\* two options, flags left to their defaults (authentication required, single vote)
FormBasic == <<Entry("question", qBest), Entry("options[]", sGo), Entry("options[]", sRust)>>
\* two options, open to anonymous voters, multiple votes allowed
FormOpen == <<Entry("question", qBest), Entry("options[]", sGo), Entry("options[]", sZig),
              Entry("allowMultipleVotes", sOn),
              Entry("requireAuthentication", sFalse)>>
\* one option only
FormOne == <<Entry("question", qBest), Entry("options[]", sGo)>>
\* two options equal but for case
FormDup == <<Entry("question", qBest), Entry("options[]", sGo), Entry("options[]", sgo)>>
\* repeated options under the plain name
FormPlain == <<Entry("question", qBest), Entry("options", sGo), Entry("options", sRust)>>

\* no option at all
FormNone == <<Entry("question", qBest)>>
\* two options equal but for case and surrounding spaces
FormDupTrim == <<Entry("question", qBest), Entry("options[]", sGo),
                 Entry("options[]", <<" ">> \o sgo \o <<" ">>)>>
\* eleven options, all different
FormEleven ==
    <<Entry("question", qBest)>>
    \o [i \in 1..(OPTIONS_MAX + 1) |-> Entry("options[]", <<LowerChars[i]>>)]

Forms == {FormBasic, FormOpen, FormOne, FormDup, FormPlain, FormNone, FormDupTrim, FormEleven}

\* an option of the greatest length the schema lets pass, a < at its head
sLong == <<"<">> \o [i \in 1..(OPTION_MAX_LEN - 1) |-> "a"]
FormLong == <<Entry("question", qBest), Entry("options[]", sGo), Entry("options[]", sLong)>>
\* forms that createPoll is applied to in the properties only
LongForms == {FormLong}

UpdateForms == {FormBasic, FormOne, FormPlain}

\* every poll id in use, one well-formed id of no poll, one malformed id
PollIdInputs == {Uuid(n) : n \in 1..(MaxPolls + 1)} \cup {BadId}
OptionIndexInputs == {-1, 1, 2, 10}

Creators == {"alice", "root", NoUser, AuthError}
Updaters == {"alice", "bob", "root", NoUser}
Voters == {"alice", NoUser}
Readers == {"alice", "bob", "root", NoUser, AuthError}

\* the provider's answers to the second getUser of a request (isUserAdmin)
Lookups(caller) == IF caller = "root" THEN {caller, AuthError} ELSE {caller}

\* validateFormData over the forms of the model, computed once
CreateValidation == [f \in Forms \cup LongForms |-> validateFormData("createPollSchema", f)]
UpdateValidation ==
    [id \in PollIdInputs |-> [f \in Forms |->
        validateFormData("updatePollSchema", FormDataWithId(id, f))]]

(***************************************************************************)
(* Server actions of the poll layer, as functions of what they read.       *)
(***************************************************************************)
\* createPoll(formData) by `caller`; id is the id the store would give the row
createPoll(formData, caller, ps, id, t) ==
    LET validation == CreateValidation[formData]
        u == getUser(caller)
    IN  IF ~validation.success THEN [error |-> validation.firstError, polls |-> ps]
        ELSE IF u.error # Null THEN [error |-> u.error, polls |-> ps]
        ELSE IF u.user = NoUser
        THEN [error |-> "You must be logged in to create a poll.", polls |-> ps]
        ELSE [error |-> Null,
              polls |-> InsertPoll(ps, id,
                          [user_id |-> u.user,
                           question |-> sanitizeHtml(validation.data.question),
                           options |-> sanitizeArray(validation.data.options),
                           allow_multiple_votes |-> validation.data.allowMultipleVotes,
                           require_authentication |-> validation.data.requireAuthentication],
                          t)]

\* the ownership test of updatePoll: TRUE when the caller is refused
UpdateDenied(existingPoll, user, userIsAdmin) ==
    existingPoll.user_id # user /\ ~userIsAdmin

\* updatePoll(pollId, formData) by `caller`; lookup is the provider's answer to
\* the second getUser of the request, the one isUserAdmin makes
updatePoll(pollId, formData, caller, lookup, ps, us, t) ==
    LET validation == UpdateValidation[pollId][formData]
        u == getUser(caller)
    IN  IF ~uuidSchema(pollId) THEN [error |-> "Invalid poll ID format", polls |-> ps]
        ELSE IF ~validation.success THEN [error |-> validation.firstError, polls |-> ps]
        ELSE IF u.error # Null THEN [error |-> u.error, polls |-> ps]
        ELSE IF u.user = NoUser
        THEN [error |-> "You must be logged in to update a poll.", polls |-> ps]
        ELSE IF pollId \notin DOMAIN ps THEN [error |-> "Poll not found", polls |-> ps]
        ELSE IF UpdateDenied(ps[pollId], u.user, isUserAdmin(u.user, lookup, us))
        THEN [error |-> "You can only update your own polls", polls |-> ps]
        ELSE [error |-> Null,
              polls |-> UpdatePollRow(ps, pollId,
                          sanitizeHtml(validation.data.question),
                          sanitizeArray(validation.data.options), t)]

\* the ownership test of deletePoll left out
DeleteDeniedNever(poll, user, userIsAdmin) == FALSE

\* the ownership test of deletePoll: TRUE when the caller is refused
DeleteDenied(poll, user, userIsAdmin) ==
    poll.user_id # user /\ ~userIsAdmin

\* deletePoll(id) up to its authorization: Null when it goes on to delete
deletePollCheck(id, caller, lookup, ps, us) ==
    LET user == getCurrentUser(caller)
    IN  IF ~uuidSchema(id) THEN "Invalid poll ID format"
        ELSE IF user = NoUser THEN "You must be logged in to delete a poll"
        ELSE IF id \notin DOMAIN ps THEN "Poll not found"
        ELSE IF DeleteDenied(ps[id], user, isUserAdmin(user, lookup, us))
        THEN "You can only delete your own polls"
        ELSE Null

\* select("*") of a polls row: the row with its id
PollRow(ps, id) ==
    [id |-> id, user_id |-> ps[id].user_id, question |-> ps[id].question,
     options |-> ps[id].options, allow_multiple_votes |-> ps[id].allow_multiple_votes,
     require_authentication |-> ps[id].require_authentication,
     created_at |-> ps[id].created_at, updated_at |-> ps[id].updated_at]

\* error.message of from("polls").select("*").eq("id", id).single()
SelectSingleError(ps, id, storeFails) ==
    IF storeFails THEN "Store error"
    ELSE IF ~IsUuid(id) THEN "invalid input syntax for type uuid"
    ELSE IF id \notin DOMAIN ps THEN "JSON object requested, multiple (or no) rows returned"
    ELSE Null

\* what a reading action returns
Rows(error, hasData, data, storeRead) ==
    [error |-> error, hasData |-> hasData, data |-> data, storeRead |-> storeRead]

\* the ownership test of getPollByIdForEdit left out
EditDeniedNever(data, user, userIsAdmin) == FALSE

\* the ownership test of getPollByIdForEdit: TRUE when the caller is refused
EditDenied(data, user, userIsAdmin) == data.user_id # user /\ ~userIsAdmin

\* getPollByIdForEdit(id) by `caller`
getPollByIdForEdit(id, caller, lookup, ps, us, storeFails) ==
    LET user == getCurrentUser(caller)
        error == SelectSingleError(ps, id, storeFails)
    IN  IF user = NoUser
        THEN Rows("You must be logged in to edit polls", FALSE, <<>>, FALSE)
        ELSE IF error # Null THEN Rows(error, FALSE, <<>>, TRUE)
        ELSE IF EditDenied(PollRow(ps, id), user, isUserAdmin(user, lookup, us))
        THEN Rows("You can only edit your own polls", FALSE, <<>>, TRUE)
        ELSE Rows(Null, TRUE, <<PollRow(ps, id)>>, TRUE)

\* the admin test of requireAdmin left out
requireAdminAnyUser(caller, lookup, us) ==
    LET user == getCurrentUser(caller)
    IN  IF user = NoUser THEN [thrown |-> "Authentication required", user |-> NoUser]
        ELSE [thrown |-> Null, user |-> user]

\* requireAdmin(): the message of the Error it throws, or the user it returns
requireAdmin(caller, lookup, us) ==
    LET user == getCurrentUser(caller)
    IN  IF user = NoUser THEN [thrown |-> "Authentication required", user |-> NoUser]
        ELSE IF ~isUserAdmin(user, lookup, us)
        THEN [thrown |-> "Admin access required", user |-> NoUser]
        ELSE [thrown |-> Null, user |-> user]

\* order("created_at", { ascending: false }): the orders the store may give
\* the rows in, rows of one created_at in any order
NewestFirst(ps) ==
    {q \in [1..Cardinality(DOMAIN ps) -> {PollRow(ps, id) : id \in DOMAIN ps}] :
        /\ \A i, j \in DOMAIN q : i # j => q[i].id # q[j].id
        /\ \A i, j \in DOMAIN q : i < j => q[i].created_at >= q[j].created_at}

\* getAllPolls() by `caller`; rows is the answer of the store when it is asked.
\* thrown is the error that leaves the function.
getAllPolls(caller, lookup, us, storeFails, rows) ==
    LET admin == requireAdmin(caller, lookup, us)
        \* the try block: an Error thrown in it, or the value it returns
        body == IF admin.thrown # Null
                THEN [thrown |-> admin.thrown, value |-> Rows(Null, FALSE, <<>>, FALSE)]
                ELSE IF storeFails
                THEN [thrown |-> Null, value |-> Rows("Store error", FALSE, <<>>, TRUE)]
                ELSE [thrown |-> Null, value |-> Rows(Null, TRUE, rows, TRUE)]
    IN  \* the catch block
        IF body.thrown # Null
        THEN [thrown |-> Null, value |-> Rows(body.thrown, FALSE, <<>>, FALSE)]
        ELSE [thrown |-> Null, value |-> body.value]

\* the bounds check off by one
OptionIndexInvalidOffByOne(optionIndex, poll) == optionIndex > Len(poll.options)

\* the test of the option index against the poll read: TRUE when refused
OptionIndexInvalid(optionIndex, poll) == optionIndex >= Len(poll.options)

\* the authentication test of submitVote left out
AuthenticationNeverRequired(poll, user) == FALSE

\* poll.require_authentication && !user: TRUE when the vote is refused
AuthenticationRequired(poll, user) == poll.require_authentication /\ user = NoUser

\* submitVote(pollId, optionIndex) up to the read of the poll: Null when it goes on
submitVoteCheck(pollId, optionIndex, caller, ps) ==
    LET voteValidation == submitVoteSchema(pollId, optionIndex)
        user == getUser(caller).user
    IN  IF voteValidation.issues # <<>> THEN Head(voteValidation.issues)
        ELSE IF pollId \notin DOMAIN ps THEN "Poll not found"
        ELSE IF AuthenticationRequired(ps[pollId], user)
        THEN "You must be logged in to vote on this poll"
        ELSE IF OptionIndexInvalid(optionIndex, ps[pollId]) THEN "Invalid option selected"
        ELSE Null

\* the duplicate check left out
ExistingVoteUnchecked(vs, pollId, user) == FALSE

\* the duplicate check of submitVote: the select of an existing vote finds a row
\* (.single() yields the row only when exactly one row matches)
ExistingVote(vs, pollId, user) == CountVotesBy(vs, pollId, user) = 1

Slots == 1..MaxCalls
Idle == [op |-> "idle"]

\* calls take the lowest free slot
FreeSlot(c) == calls[c] = Idle /\ \A d \in Slots : d < c => calls[d] # Idle

\* what an action returned: the error, and for the reading actions the rows
\* (hasData is FALSE for null), the boolean of isUserAdmin with the userId it
\* was asked about, and whether the polls table was queried
NoReturn == [op |-> "none", pollId |-> <<>>, error |-> Null, hasData |-> FALSE, data |-> <<>>,
             flag |-> FALSE, userId |-> NoUser, storeRead |-> FALSE]
Returned(op, pollId, error) == [NoReturn EXCEPT !.op = op, !.pollId = pollId, !.error = error]
ReturnedRows(op, pollId, r) ==
    [NoReturn EXCEPT !.op = op, !.pollId = pollId, !.error = r.error,
                     !.hasData = r.hasData, !.data = r.data, !.storeRead = r.storeRead]
ReturnedFlag(op, userId, flag) == [NoReturn EXCEPT !.op = op, !.userId = userId, !.flag = flag]

(***************************************************************************)
(* Edge middleware: the rate limiter, the session checks, the headers.     *)
(***************************************************************************)
RATE_LIMIT_WINDOW == 15 * 60 * 1000
RATE_LIMIT_MAX_REQUESTS == 100
maxSessionAge == 24 * 60 * 60 * 1000

None == "absent"

\* rateLimitStore.get(ip) is undefined
NoRecord == [count |-> 0, resetTime |-> -1]
IpKeys == {"10.0.0.1", "unknown"}

securityHeaders ==
    [h \in {"X-Frame-Options", "X-Content-Type-Options", "Referrer-Policy",
            "X-XSS-Protection", "Content-Security-Policy"} |->
        CASE h = "X-Frame-Options" -> "DENY"
          [] h = "X-Content-Type-Options" -> "nosniff"
          [] h = "Referrer-Policy" -> "strict-origin-when-cross-origin"
          [] h = "X-XSS-Protection" -> "1; mode=block"
          [] OTHER -> "default-src 'self'; script-src 'self' 'unsafe-inline' 'unsafe-eval'; style-src 'self' 'unsafe-inline'; img-src 'self' data: https:; font-src 'self' data:;"]

NoHeaders == [h \in {} |-> ""]

\* a response: status, redirect target, headers, cookies set and deleted, and
\* what was done to produce it: whether the identity provider was called and
\* whether the route was classified (isProtectedRoute computed)
Response(status, location) ==
    [status |-> status, location |-> location, headers |-> NoHeaders,
     cookiesSet |-> FALSE, cookiesDeleted |-> {}, providerCalled |-> FALSE,
     routeClassified |-> FALSE]

\* a URL: its pathname and the two search parameters the redirects set
NoPath == <<>>
Location(pathname, error, redirectTo) ==
    [pathname |-> pathname, error |-> error, redirectTo |-> redirectTo]
NoLocation == Location(NoPath, None, NoPath)
NoResponse == Response(0, NoLocation)

addSecurityHeaders(response) ==
    [response EXCEPT !.headers =
        [h \in DOMAIN response.headers \cup DOMAIN securityHeaders |->
            IF h \in DOMAIN securityHeaders THEN securityHeaders[h] ELSE response.headers[h]]]

\* a rejected request starts the window again
checkRateLimitExtends(ip, store, t) ==
    LET record == store[ip]
    IN  IF record = NoRecord \/ t > record.resetTime
        THEN [allowed |-> TRUE,
              store |-> [store EXCEPT ![ip] = [count |-> 1, resetTime |-> t + RATE_LIMIT_WINDOW]]]
        ELSE IF record.count >= RATE_LIMIT_MAX_REQUESTS
        THEN [allowed |-> FALSE,
              store |-> [store EXCEPT ![ip].resetTime = t + RATE_LIMIT_WINDOW]]
        ELSE [allowed |-> TRUE, store |-> [store EXCEPT ![ip].count = @ + 1]]

\* the limit compared with > where the code has >=
checkRateLimitOffByOne(ip, store, t) ==
    LET record == store[ip]
    IN  IF record = NoRecord \/ t > record.resetTime
        THEN [allowed |-> TRUE,
              store |-> [store EXCEPT ![ip] = [count |-> 1, resetTime |-> t + RATE_LIMIT_WINDOW]]]
        ELSE IF record.count > RATE_LIMIT_MAX_REQUESTS
        THEN [allowed |-> FALSE, store |-> store]
        ELSE [allowed |-> TRUE, store |-> [store EXCEPT ![ip].count = @ + 1]]

\* checkRateLimit(ip) at time t: whether the request is allowed, and the store after
checkRateLimit(ip, store, t) ==
    LET record == store[ip]
    IN  IF record = NoRecord \/ t > record.resetTime
        THEN [allowed |-> TRUE,
              store |-> [store EXCEPT ![ip] = [count |-> 1, resetTime |-> t + RATE_LIMIT_WINDOW]]]
        ELSE IF record.count >= RATE_LIMIT_MAX_REQUESTS
        THEN [allowed |-> FALSE, store |-> store]
        ELSE [allowed |-> TRUE, store |-> [store EXCEPT ![ip].count = @ + 1]]

\* request.ip || request.headers.get('x-forwarded-for') || 'unknown'
ClientIp(request) ==
    IF request.ip # None THEN request.ip
    ELSE IF request.forwardedFor # None THEN request.forwardedFor
    ELSE "unknown"

StartsWith(s, prefix) == Len(s) >= Len(prefix) /\ SubSeq(s, 1, Len(prefix)) = prefix

pLogin == <<"/","l","o","g","i","n">>
pRegister == <<"/","r","e","g","i","s","t","e","r">>
pAuth == <<"/","a","u","t","h">>
pNext == <<"/","_","n","e","x","t">>
pApiAuth == <<"/","a","p","i","/","a","u","t","h">>
pPolls == <<"/","p","o","l","l","s">>
pRoot == <<"/">>

\* /register left out of the public prefixes
isProtectedRouteNoRegister(pathname) ==
    /\ ~StartsWith(pathname, pLogin)
    /\ ~StartsWith(pathname, pAuth)
    /\ ~StartsWith(pathname, pNext)
    /\ ~StartsWith(pathname, pApiAuth)

isProtectedRoute(pathname) ==
    /\ ~StartsWith(pathname, pLogin)
    /\ ~StartsWith(pathname, pRegister)
    /\ ~StartsWith(pathname, pAuth)
    /\ ~StartsWith(pathname, pNext)
    /\ ~StartsWith(pathname, pApiAuth)

SessionCookies == {"sb-access-token", "sb-refresh-token"}

\* What supabase.auth.getUser() gives the middleware for a request:
\*   outcome  "throw" (the call throws), "error" (error set) or "ok"
\*   user     the user of the session, NoUser without one
\*   age      how long ago that session was created, in milliseconds
\*   session  whether data carries a session next to the user
\*   refresh  whether the provider refreshed the tokens (a call of setAll)
Auth(outcome, user, age, session, refresh) ==
    [outcome |-> outcome, user |-> user, age |-> age, session |-> session, refresh |-> refresh]

\* the test of the provider's error moved behind the session-age test and the
\* route classification
sessionResponseErrorLast(request, t) ==
    LET auth == request.auth
        user == IF auth.outcome = "throw" THEN NoUser ELSE auth.user
        hasSession == auth.outcome # "throw" /\ auth.user # NoUser /\ auth.session
        session == [created_at |-> t - auth.age]
        sessionAge == t - session.created_at
        supabaseResponse == [Response(200, NoLocation) EXCEPT
                                !.cookiesSet = auth.refresh, !.providerCalled = TRUE,
                                !.routeClassified = TRUE]
        redirect(location, deleted, classified) ==
            [Response(307, location) EXCEPT !.cookiesDeleted = deleted, !.providerCalled = TRUE,
                                            !.routeClassified = classified]
    IN  IF auth.outcome = "throw"
        THEN addSecurityHeaders(redirect(Location(pLogin, "auth_error", NoPath), {}, FALSE))
        ELSE IF user # NoUser /\ hasSession /\ sessionAge > maxSessionAge
        THEN addSecurityHeaders(redirect(Location(pLogin, "session_expired", NoPath),
                                         SessionCookies, FALSE))
        ELSE IF user = NoUser /\ isProtectedRoute(request.pathname)
        THEN addSecurityHeaders(redirect(Location(pLogin, None, request.pathname), {}, TRUE))
        ELSE IF auth.outcome = "error"
        THEN addSecurityHeaders(redirect(Location(pLogin, "session_invalid", NoPath),
                                         SessionCookies, TRUE))
        ELSE addSecurityHeaders(supabaseResponse)

\* the part of updateSession after the rate limiter, at time t
sessionResponse(request, t) ==
    LET auth == request.auth
        user == IF auth.outcome = "throw" THEN NoUser ELSE auth.user
        hasSession == auth.outcome # "throw" /\ auth.user # NoUser /\ auth.session
        session == [created_at |-> t - auth.age]
        sessionAge == t - session.created_at
        supabaseResponse == [Response(200, NoLocation) EXCEPT
                                !.cookiesSet = auth.refresh, !.providerCalled = TRUE,
                                !.routeClassified = TRUE]
        redirect(location, deleted, classified) ==
            [Response(307, location) EXCEPT !.cookiesDeleted = deleted, !.providerCalled = TRUE,
                                            !.routeClassified = classified]
    IN  IF auth.outcome = "throw"
        THEN addSecurityHeaders(redirect(Location(pLogin, "auth_error", NoPath), {}, FALSE))
        ELSE IF auth.outcome = "error"
        THEN addSecurityHeaders(redirect(Location(pLogin, "session_invalid", NoPath),
                                         SessionCookies, FALSE))
        ELSE IF user # NoUser /\ hasSession /\ sessionAge > maxSessionAge
        THEN addSecurityHeaders(redirect(Location(pLogin, "session_expired", NoPath),
                                         SessionCookies, FALSE))
        ELSE IF user = NoUser /\ isProtectedRoute(request.pathname)
        THEN addSecurityHeaders(redirect(Location(pLogin, None, request.pathname), {}, TRUE))
        ELSE addSecurityHeaders(supabaseResponse)

\* the rate limiter consulted after the session work
updateSessionLimitLast(request, store, t) ==
    LET limit == checkRateLimit(ClientIp(request), store, t)
        response == sessionResponse(request, t)
    IN  IF ~limit.allowed
        THEN [response |-> [response EXCEPT !.status = 429, !.location = NoLocation,
                                            !.headers = NoHeaders],
              store |-> limit.store]
        ELSE [response |-> response, store |-> limit.store]

\* updateSession(request) at time t: the response and the rate-limit store after
updateSession(request, store, t) ==
    LET limit == checkRateLimit(ClientIp(request), store, t)
    IN  IF ~limit.allowed
        THEN [response |-> Response(429, NoLocation), store |-> limit.store]
        ELSE [response |-> sessionResponse(request, t), store |-> limit.store]

\* requests of the model
SessionAges == {0, maxSessionAge, maxSessionAge + 1}
AuthInputs ==
    {Auth("throw", NoUser, 0, FALSE, FALSE), Auth("error", NoUser, 0, FALSE, FALSE),
     Auth("error", "alice", maxSessionAge + 1, TRUE, FALSE),
     Auth("ok", NoUser, 0, FALSE, FALSE)}
    \cup {Auth("ok", "alice", a, s, (a = 0)) : a \in SessionAges, s \in BOOLEAN}
Addresses == {<<"10.0.0.1", None>>, <<None, "10.0.0.1">>, <<None, None>>}
Paths == {pPolls, pRoot, pLogin, pRegister, pAuth, pNext, pApiAuth}
Request(a, p, x) == [ip |-> a[1], forwardedFor |-> a[2], pathname |-> p, auth |-> x]
\* every path with every answer of the provider from one address, and one
\* request from each of the other addresses
Requests ==
    {Request(<<"10.0.0.1", None>>, p, x) : p \in Paths, x \in AuthInputs}
    \cup {Request(a, pPolls, Auth("ok", "alice", 0, FALSE, TRUE)) : a \in Addresses}

\* whether a request of key ip at time t opens a new window
OpensWindow(ip, store, t) == store[ip] = NoRecord \/ t > store[ip].resetTime

\* requests explored per window: the whole limit and MaxOver more for the
\* first address, MaxOther for the fallback key
Budget(ip) == IF ip = "unknown" THEN MaxOther ELSE RATE_LIMIT_MAX_REQUESTS + MaxOver

(***************************************************************************)
(* The middleware entry point: config.matcher decides whether updateSession *)
(* runs for a request; a request the matcher leaves out is served without   *)
(* it.                                                                      *)
(***************************************************************************)
EndsWith(s, suffix) ==
    Len(s) >= Len(suffix) /\ SubSeq(s, Len(s) - Len(suffix) + 1, Len(s)) = suffix

\* favicon.ico of the pattern; its dot stands for any character
FaviconPrefix(rest) ==
    /\ Len(rest) >= FAVICON_LEN
    /\ SubSeq(rest, 1, FAVICON_DOT - 1) = <<"f","a","v","i","c","o","n">>
    /\ SubSeq(rest, FAVICON_DOT + 1, FAVICON_LEN) = <<"i","c","o">>

ImageSuffixes == {<<".","s","v","g">>, <<".","p","n","g">>, <<".","j","p","g">>, <<".","j","p","e","g">>, <<".","g","i","f">>, <<".","w","e","b","p">>}

\* a matcher without exclusions
matcherEveryPath(pathname) == TRUE

\* '/((?!_next/static|_next/image|favicon.ico|login|register|.*\.(?:svg|png|jpg|jpeg|gif|webp)$).*)'
matcher(pathname) ==
    /\ pathname # <<>> /\ Head(pathname) = "/"
    /\ LET rest == Tail(pathname)
       IN  /\ ~StartsWith(rest, <<"_","n","e","x","t","/","s","t","a","t","i","c">>)
           /\ ~StartsWith(rest, <<"_","n","e","x","t","/","i","m","a","g","e">>)
           /\ ~FaviconPrefix(rest)
           /\ ~StartsWith(rest, Tail(pLogin))
           /\ ~StartsWith(rest, Tail(pRegister))
           /\ ~\E suffix \in ImageSuffixes : EndsWith(rest, suffix)

\* the response of a request the middleware does not run for: the page or
\* action itself answers
Served == Response(200, NoLocation)

\* middleware(request) behind its matcher
middleware(request, store, t) ==
    IF matcher(request.pathname) THEN updateSession(request, store, t)
    ELSE [response |-> Served, store |-> store]

\* the instants the clock of the model takes, and the client whose passes
\* the rate limiter on its own is watched for
TimePoints == (0..MaxTicks) \cup (RATE_LIMIT_WINDOW..(RATE_LIMIT_WINDOW + MaxTicks))
LimitedIps == {"10.0.0.1"}

(***************************************************************************)
(* Initial state.                                                          *)
(***************************************************************************)
InitApp ==
    /\ users = InitialUsers
    /\ polls = [p \in {} |-> 0]
    /\ votes = EmptyBag
    /\ nextPollId = 1
    /\ calls = [c \in Slots |-> Idle]
    /\ last = NoReturn
    /\ rateLimitStore = [k \in IpKeys |-> NoRecord]
    /\ handled = [k \in IpKeys |-> 0]
    /\ now = 0
    /\ resp = NoResponse
    /\ passed = [ip \in LimitedIps |-> [t \in TimePoints |-> 0]]

Init == InitApp /\ text = <<>> /\ applied = 0

(***************************************************************************)
(* Actions of the poll layer. A server action that awaits the store more   *)
(* than once is one action per round trip. last holds what the step        *)
(* returned to its caller, NoReturn when the call is still in flight.      *)
(***************************************************************************)
CreatePoll(caller, formData) ==
    LET r == createPoll(formData, caller, polls, Uuid(nextPollId), now)
    IN  /\ r.error = Null => nextPollId <= MaxPolls
        /\ polls' = r.polls
        /\ nextPollId' = IF r.error = Null THEN nextPollId + 1 ELSE nextPollId
        /\ last' = Returned("createPoll", IF r.error = Null THEN Uuid(nextPollId) ELSE <<>>,
                            r.error)
        /\ UNCHANGED <<users, votes, calls, now, mwVars, fnVars>>

UpdatePoll(caller, lookup, pollId, formData) ==
    LET r == updatePoll(pollId, formData, caller, lookup, polls, users, now)
    IN  /\ polls' = r.polls
        /\ last' = Returned("updatePoll", pollId, r.error)
        /\ UNCHANGED <<users, votes, nextPollId, calls, now, mwVars, fnVars>>

\* deletePoll: validation, getCurrentUser, fetch of the owner, isUserAdmin.
\* The statements that follow use the id alone, so the call in flight keeps it
\* and not the caller.
DeletePollStart(c, caller, lookup, id) ==
    LET e == deletePollCheck(id, caller, lookup, polls, users)
    IN  /\ FreeSlot(c)
        /\ IF e # Null
           THEN /\ last' = Returned("deletePoll", id, e)
                /\ UNCHANGED calls
           ELSE /\ calls' = [calls EXCEPT ![c] = [op |-> "deletePoll", pc |-> "votes",
                                                  pollId |-> id, removed |-> FALSE]]
                /\ last' = NoReturn
        /\ UNCHANGED <<users, polls, votes, nextPollId, now, mwVars, fnVars>>

\* deletePoll: delete of the poll's votes; votesError when the store fails.
\* The call in flight remembers whether the delete removed a vote.
DeletePollVotes(c, storeFails) ==
    /\ calls[c].op = "deletePoll" /\ calls[c].pc = "votes"
    /\ IF storeFails
       THEN /\ last' = Returned("deletePoll", calls[c].pollId, "Failed to delete poll votes")
            /\ calls' = [calls EXCEPT ![c] = Idle]
            /\ UNCHANGED votes
       ELSE /\ votes' = DeleteVotes(votes, calls[c].pollId)
            /\ calls' = [calls EXCEPT ![c].pc = "poll",
                                      ![c].removed = (DeleteVotes(votes, calls[c].pollId) # votes)]
            /\ last' = NoReturn
    /\ UNCHANGED <<users, polls, nextPollId, now, mwVars, fnVars>>

\* deletePoll: delete of the poll row; error when the store fails
DeletePollPoll(c, storeFails) ==
    /\ calls[c].op = "deletePoll" /\ calls[c].pc = "poll"
    /\ IF storeFails
       THEN /\ last' = Returned("deletePoll", calls[c].pollId, "Store error")
            /\ UNCHANGED <<polls, votes>>
       ELSE LET r == DeletePollRow(polls, votes, calls[c].pollId)
            IN  /\ polls' = r.polls
                /\ votes' = r.votes
                /\ last' = Returned("deletePoll", calls[c].pollId, Null)
    /\ calls' = [calls EXCEPT ![c] = Idle]
    /\ UNCHANGED <<users, nextPollId, now, mwVars, fnVars>>

\* submitVote: validation, getUser, read of the poll and the tests on it
SubmitVoteStart(c, caller, pollId, optionIndex) ==
    LET e == submitVoteCheck(pollId, optionIndex, caller, polls)
        user == getUser(caller).user
    IN  /\ FreeSlot(c)
        /\ IF e # Null
           THEN /\ last' = Returned("submitVote", pollId, e)
                /\ UNCHANGED calls
           ELSE /\ calls' = [calls EXCEPT ![c] = [op |-> "submitVote",
                                                  pc |-> IF user # NoUser THEN "check" ELSE "insert",
                                                  caller |-> user, pollId |-> pollId,
                                                  optionIndex |-> optionIndex,
                                                  optionCount |-> Len(polls[pollId].options)]]
                /\ last' = NoReturn
        /\ UNCHANGED <<users, polls, votes, nextPollId, now, mwVars, fnVars>>

\* submitVote: the select of an existing vote of the user on the poll
SubmitVoteCheck(c) ==
    /\ calls[c].op = "submitVote" /\ calls[c].pc = "check"
    /\ IF ExistingVote(votes, calls[c].pollId, calls[c].caller)
       THEN /\ last' = Returned("submitVote", calls[c].pollId,
                                "You have already voted on this poll")
            /\ calls' = [calls EXCEPT ![c] = Idle]
       ELSE /\ calls' = [calls EXCEPT ![c].pc = "insert"]
            /\ last' = NoReturn
    /\ UNCHANGED <<users, polls, votes, nextPollId, now, mwVars, fnVars>>

\* submitVote: the insert of the vote
SubmitVoteInsert(c) ==
    LET r == InsertVote(polls, votes,
                        VoteRow(calls[c].pollId, calls[c].caller, calls[c].optionIndex))
    IN  /\ calls[c].op = "submitVote" /\ calls[c].pc = "insert"
        /\ r.error = Null => CountVotes(votes) < MaxVotes
        /\ votes' = r.votes
        /\ last' = Returned("submitVote", calls[c].pollId, r.error)
        /\ calls' = [calls EXCEPT ![c] = Idle]
        /\ UNCHANGED <<users, polls, nextPollId, now, mwVars, fnVars>>

\* getPollByIdForEdit: a read, nothing is written
GetPollByIdForEdit(caller, lookup, id, storeFails) ==
    /\ last' = ReturnedRows("getPollByIdForEdit", id,
                            getPollByIdForEdit(id, caller, lookup, polls, users, storeFails))
    /\ UNCHANGED <<users, polls, votes, nextPollId, calls, now, mwVars, fnVars>>

\* getAllPolls: a read, nothing is written
GetAllPolls(caller, lookup, storeFails) ==
    /\ \E rows \in NewestFirst(polls) :
          last' = ReturnedRows("getAllPolls", <<>>,
                               getAllPolls(caller, lookup, users, storeFails, rows).value)
    /\ UNCHANGED <<users, polls, votes, nextPollId, calls, now, mwVars, fnVars>>

\* isUserAdmin called as a server action, with a user id or with none (NoUser)
IsUserAdmin(caller, userId) ==
    /\ last' = ReturnedFlag("isUserAdmin", userId, isUserAdmin(userId, caller, users))
    /\ UNCHANGED <<users, polls, votes, nextPollId, calls, now, mwVars, fnVars>>

Next ==
    \/ \E caller \in Creators, formData \in Forms : CreatePoll(caller, formData)
    \/ \E caller \in Readers, id \in PollIdInputs, storeFails \in BOOLEAN :
          \E lookup \in Lookups(caller) : GetPollByIdForEdit(caller, lookup, id, storeFails)
    \/ \E caller \in Readers, storeFails \in BOOLEAN :
          \E lookup \in Lookups(caller) : GetAllPolls(caller, lookup, storeFails)
    \/ \E caller \in Readers, userId \in {"alice", "root", NoUser} : IsUserAdmin(caller, userId)
    \/ \E caller \in Updaters, pollId \in PollIdInputs, formData \in UpdateForms :
          \E lookup \in Lookups(caller) : UpdatePoll(caller, lookup, pollId, formData)
    \/ \E c \in Slots, caller \in Callers, id \in PollIdInputs :
          \E lookup \in Lookups(caller) : DeletePollStart(c, caller, lookup, id)
    \/ \E c \in Slots, storeFails \in BOOLEAN : DeletePollVotes(c, storeFails)
    \/ \E c \in Slots, storeFails \in BOOLEAN : DeletePollPoll(c, storeFails)
    \/ \E c \in Slots, caller \in Voters, pollId \in PollIdInputs,
          optionIndex \in OptionIndexInputs : SubmitVoteStart(c, caller, pollId, optionIndex)
    \/ \E c \in Slots : SubmitVoteCheck(c)
    \/ \E c \in Slots : SubmitVoteInsert(c)

Spec == Init /\ [][Next]_vars

(***************************************************************************)
(* Actions of the middleware.                                              *)
(***************************************************************************)
UpdateSession(request) ==
    LET ip == ClientIp(request)
        r == updateSession(request, rateLimitStore, now)
        n == IF OpensWindow(ip, rateLimitStore, now) THEN 1 ELSE handled[ip] + 1
    IN  /\ n <= Budget(ip)
        /\ rateLimitStore' = r.store
        /\ handled' = [handled EXCEPT ![ip] = n]
        /\ resp' = r.response
        /\ UNCHANGED <<pollVars, now, fnVars>>

\* the clock moves on by d milliseconds; the times explored are the first
\* MaxTicks milliseconds and the MaxTicks milliseconds from one window later
Tick(d) ==
    /\ now + d <= MaxTicks \/ now + d >= RATE_LIMIT_WINDOW
    /\ now + d <= RATE_LIMIT_WINDOW + MaxTicks
    /\ now' = now + d
    /\ UNCHANGED <<pollVars, mwVars, fnVars>>

NextMW ==
    \/ \E request \in Requests : UpdateSession(request)
    \/ \E d \in {1, RATE_LIMIT_WINDOW} : Tick(d)

SpecMW == Init /\ [][NextMW]_vars

(***************************************************************************)
(* sanitizeHtml applied to a string, and again to what it returned.        *)
(***************************************************************************)
\* a letter, the space trim removes, and the five characters escapeMap replaces
SanitizeAlphabet == {"a", " ", "<", ">", "\"", "'", "&"}
SanitizeInputs == UNION {[1..n -> SanitizeAlphabet] : n \in 0..MaxLen}

InitSan == InitApp /\ text \in SanitizeInputs /\ applied = 0

Sanitize ==
    /\ applied < MaxApply
    /\ text' = sanitizeHtml(text)
    /\ applied' = applied + 1
    /\ UNCHANGED <<pollVars, mwVars, now, passed>>

NextSan == Sanitize

SpecSan == InitSan /\ [][NextSan]_vars

(***************************************************************************)
(* Actions of the account layer. The session a login opens lives in the    *)
(* caller's cookies, which every action takes as its input `caller`, so    *)
(* login and logout change nothing the model keeps.                        *)
(***************************************************************************)
\* register: the account is created, or an error returned
Register(data, env) ==
    LET r == register(data, users, env)
    IN  /\ users' = r.users
        /\ last' = [Returned("register", <<>>, r.error) EXCEPT !.flag = data.is_admin]
        /\ UNCHANGED <<polls, votes, nextPollId, calls, now, mwVars, fnVars>>

\* login; last.flag tells whether the address had an account
Login(data, env) ==
    /\ last' = [Returned("login", <<>>, login(data, users, env))
                  EXCEPT !.flag = HasAccount(Sanitized[data])
                                  /\ AccountOf(Sanitized[data]) \in DOMAIN users]
    /\ UNCHANGED <<users, polls, votes, nextPollId, calls, now, mwVars, fnVars>>

Logout(signOutError) ==
    /\ last' = Returned("logout", <<>>, logout(signOutError))
    /\ UNCHANGED <<users, polls, votes, nextPollId, calls, now, mwVars, fnVars>>

NextAuth ==
    \/ \E data \in RegisterInputs, env \in RegisterEnvs : Register(data, env)
    \/ \E data \in LoginInputs, env \in LoginEnvs : Login(data, env)
    \/ \E signOutError \in {Null, "Network request failed"} : Logout(signOutError)
    \/ Next

SpecAuth == Init /\ [][NextAuth]_vars

\* a request as the application receives it: through updateSession when the
\* matcher selects its path, and served without it otherwise
Middleware(request) ==
    LET ip == ClientIp(request)
        r == middleware(request, rateLimitStore, now)
        n == IF OpensWindow(ip, rateLimitStore, now) THEN 1 ELSE handled[ip] + 1
    IN  /\ matcher(request.pathname) => n <= Budget(ip)
        /\ rateLimitStore' = r.store
        /\ handled' = IF matcher(request.pathname) THEN [handled EXCEPT ![ip] = n] ELSE handled
        /\ resp' = r.response
        /\ UNCHANGED <<pollVars, now, fnVars>>

NextGate ==
    \/ \E request \in Requests : Middleware(request)
    \/ \E d \in {1, RATE_LIMIT_WINDOW} : Tick(d)

SpecGate == Init /\ [][NextGate]_vars

(***************************************************************************)
(* The rate limiter on its own: calls of checkRateLimit by one client as   *)
(* the clock goes on, with the passes of the last 15 minutes kept.         *)
(***************************************************************************)
CheckRateLimit(ip) ==
    LET r == checkRateLimit(ip, rateLimitStore, now)
    IN  /\ rateLimitStore' = r.store
        /\ passed' = IF r.allowed THEN [passed EXCEPT ![ip][now] = @ + 1] ELSE passed
        /\ UNCHANGED <<pollVars, handled, resp, now, text, applied>>

\* the clock goes on by d; passes older than 15 minutes are forgotten
Advance(d) ==
    /\ now + d <= MaxTicks \/ now + d >= RATE_LIMIT_WINDOW
    /\ now + d <= RATE_LIMIT_WINDOW + MaxTicks
    /\ now' = now + d
    /\ passed' = [ip \in LimitedIps |-> [t \in TimePoints |->
                     IF t + RATE_LIMIT_WINDOW <= now + d THEN 0 ELSE passed[ip][t]]]
    /\ UNCHANGED <<pollVars, mwVars, text, applied>>

NextRL ==
    \/ \E ip \in LimitedIps : CheckRateLimit(ip)
    \/ \E d \in {1, RATE_LIMIT_WINDOW} : Advance(d)

SpecRL == Init /\ [][NextRL]_vars

(***************************************************************************)
(* Properties.                                                             *)
(***************************************************************************)
IsAdmin(u) == u \in UserIds /\ users[u].is_admin
NonOwnerNonAdmin(u, p) ==
    u \in UserIds /\ p \in DOMAIN polls /\ polls[p].user_id # u /\ ~IsAdmin(u)

DuplicateVoteError == "You have already voted on this poll"

\* the store holds a vote of user u on poll p
HasVoted(u, p) == u \in UserIds /\ VotesBy(votes, p, u) # {}

\* C1: updatePoll and deletePoll called by an authenticated user who is neither
\* the poll's owner nor an admin return an error in the step that makes the
\* ownership test, and that step leaves the polls and the votes as they were.
C1_Denied ==
    \A u \in UserIds, p \in PollIdInputs :
        NonOwnerNonAdmin(u, p) =>
            /\ \A f \in UpdateForms :
                  UpdatePoll(u, u, p, f) =>
                      last'.error # Null /\ polls' = polls /\ votes' = votes
            /\ \A c \in Slots :
                  DeletePollStart(c, u, u, p) =>
                      /\ last'.op = "deletePoll" /\ last'.error # Null
                      /\ calls' = calls /\ polls' = polls /\ votes' = votes
C1_NonOwnerDenied == [][C1_Denied]_vars

\* a user who is no admin was refused the deletion of a poll that exists
C1_Witness ==
    /\ last.op = "deletePoll" /\ last.error = "You can only delete your own polls"
    /\ last.pollId \in DOMAIN polls

\* C2 (as claimed): for an admin, updatePoll with a form createPoll would accept
\* and deletePoll succeed on any existing poll: updatePoll returns no error and
\* writes the sanitized question and options, deletePoll goes on to delete.
C2_AdminStep ==
    \A u \in UserIds, p \in PollIdInputs :
        (IsAdmin(u) /\ p \in DOMAIN polls) =>
            /\ \A f \in UpdateForms :
                  (CreateValidation[f].success /\ UpdatePoll(u, u, p, f)) =>
                      /\ last'.error = Null
                      /\ polls'[p].options = sanitizeArray(CreateValidation[f].data.options)
            /\ \A c \in Slots :
                  DeletePollStart(c, u, u, p) => last' = NoReturn /\ calls'[c].op = "deletePoll"
C2_AdminSucceeds == [][C2_AdminStep]_vars

\* C3 (as claimed): a submitVote by a user whose vote on the poll is in the
\* store returns the duplicate-vote error, whatever the option index.
C3_AlwaysDuplicateStep ==
    \A c \in Slots, u \in Voters \ {NoUser}, p \in PollIdInputs, i \in OptionIndexInputs :
        (HasVoted(u, p) /\ SubmitVoteStart(c, u, p, i)) => last' = NoReturn
C3_AlwaysDuplicate == [][C3_AlwaysDuplicateStep]_vars

\* C3 (amended): when the user's vote on the poll is in the store, submitVote
\* with an option index of the poll returns the duplicate-vote error, with any
\* other index it returns another error; either way nothing is inserted and the
\* user keeps exactly one vote on the poll, whatever allow_multiple_votes is.
C3_Step ==
    /\ \A c \in Slots, u \in Voters \ {NoUser}, p \in PollIdInputs, i \in OptionIndexInputs :
          (HasVoted(u, p) /\ SubmitVoteStart(c, u, p, i)) =>
              /\ votes' = votes
              /\ IF 0 <= i /\ i < Len(polls[p].options)
                 THEN last' = NoReturn /\ calls'[c].pc = "check"
                 ELSE last'.op = "submitVote" /\ last'.error # Null /\ calls' = calls
    /\ \A c \in Slots :
          (/\ calls[c].op = "submitVote" /\ calls[c].pc = "check"
           /\ HasVoted(calls[c].caller, calls[c].pollId)
           /\ SubmitVoteCheck(c)) =>
              /\ last'.error = DuplicateVoteError
              /\ calls'[c] = Idle
              /\ votes' = votes
              /\ CountVotesBy(votes', calls[c].pollId, calls[c].caller) = 1
C3_DuplicateVote == [][C3_Step]_vars

\* the duplicate-vote error was returned on a poll that allows multiple votes
C3_Witness ==
    /\ last.op = "submitVote" /\ last.error = DuplicateVoteError
    /\ last.pollId \in DOMAIN polls
    /\ polls[last.pollId].allow_multiple_votes
    /\ \E u \in UserIds : CountVotesBy(votes, last.pollId, u) = 1

\* C4: the votes table never holds two votes of one user on one poll, also when
\* two submitVote calls of the user interleave; the insert that comes second is
\* rejected and its call returns an error.
C4_AtMostOne ==
    \A p \in PollIdInputs, u \in UserIds : CountVotesBy(votes, p, u) <= 1
C4_LoserRejected ==
    \A c \in Slots :
        (/\ calls[c].op = "submitVote" /\ calls[c].pc = "insert"
         /\ calls[c].caller # NoUser
         /\ VotesBy(votes, calls[c].pollId, calls[c].caller) # {}
         /\ SubmitVoteInsert(c)) =>
            last'.error # Null /\ votes' = votes
C4_OneVotePerUser == []C4_AtMostOne /\ [][C4_LoserRejected]_vars

\* the second of two interleaved inserts was rejected by the store
C4_Witness ==
    /\ last.op = "submitVote"
    /\ last.error = "duplicate key value violates unique constraint"
    /\ \E u \in UserIds : CountVotesBy(votes, last.pollId, u) = 1

\* C5: submitVote returns an error and inserts nothing when the option index is
\* not below the number of options of the poll it reads; a call that goes on
\* holds an index within the options it read, and so does the row it inserts.
C5_InFlightInRange ==
    \A c \in Slots :
        calls[c].op = "submitVote" =>
            0 <= calls[c].optionIndex /\ calls[c].optionIndex < calls[c].optionCount
C5_Step ==
    /\ \A c \in Slots, u \in Voters, p \in PollIdInputs, i \in OptionIndexInputs :
          (p \in DOMAIN polls /\ i >= Len(polls[p].options) /\ SubmitVoteStart(c, u, p, i)) =>
              /\ last'.op = "submitVote" /\ last'.error # Null
              /\ calls' = calls /\ votes' = votes
    /\ \A c \in Slots :
          (calls[c].op = "submitVote" /\ SubmitVoteInsert(c) /\ votes' # votes) =>
              \E i \in 0..(calls[c].optionCount - 1) :
                  votes' = votes (+) SetToBag({VoteRow(calls[c].pollId, calls[c].caller, i)})
C5_OptionIndexInRange == []C5_InFlightInRange /\ [][C5_Step]_vars

\* submitVote refused an index that the schema accepts and the poll does not have
C5_Witness ==
    /\ last.op = "submitVote" /\ last.error = "Invalid option selected"
    /\ last.pollId \in DOMAIN polls

\* C6: when deletePoll returns without an error the poll is gone and no vote
\* of the poll is left.
C6_DeletedWithVotes ==
    (last.op = "deletePoll" /\ last.error = Null) =>
        last.pollId \notin DOMAIN polls /\ VotesOf(votes, last.pollId) = {}

\* deletePoll returned without an error
C6_Witness == last.op = "deletePoll" /\ last.error = Null /\ IsUuid(last.pollId)

\* C7: every vote in the store is a vote of a poll in the store, also when a
\* submitVote that has read the poll interleaves with the two deletes of deletePoll.
C7_NoOrphanVotes == \A v \in BagToSet(votes) : v.poll_id \in DOMAIN polls

\* a submitVote read its poll, the poll was deleted, and the insert was refused
C7_Witness ==
    /\ last.op = "submitVote" /\ last.error = "violates foreign key constraint"
    /\ last.pollId \notin DOMAIN polls

\* C8: of the requests of one address in one window the first 100 pass the
\* rate limiter and every later one gets the 429 response.
\* (a step that handles a request of ip changes rateLimitStore[ip] when it lets
\* the request pass and handled[ip] when it does not; handled[ip] counts the
\* requests of ip since the request that opened its window)
C8_Step ==
    \A ip \in IpKeys :
        (handled'[ip] # handled[ip] \/ rateLimitStore'[ip] # rateLimitStore[ip]) =>
            LET n == handled'[ip]
            IN  /\ n <= RATE_LIMIT_MAX_REQUESTS => resp'.status # 429
                /\ n > RATE_LIMIT_MAX_REQUESTS =>
                       resp'.status = 429 /\ now <= rateLimitStore[ip].resetTime
C8_RateLimit == [][C8_Step]_vars

\* the 101st request of a window was answered 429
C8_Witness ==
    /\ resp.status = 429
    /\ \E ip \in IpKeys : handled[ip] = RATE_LIMIT_MAX_REQUESTS + 1
                          /\ rateLimitStore[ip].count = RATE_LIMIT_MAX_REQUESTS

\* C9 (as claimed): every response of updateSession carries the security headers.
C9_AllResponsesHaveHeaders ==
    resp # NoResponse =>
        \A h \in DOMAIN securityHeaders :
            h \in DOMAIN resp.headers /\ resp.headers[h] = securityHeaders[h]

\* C10 (as claimed): a request that is not rate-limited, made by a user the
\* provider reports and whose session is older than 24 hours, is redirected to
\* /login?error=session_expired with the session cookies deleted.
C10_Step ==
    \A request \in Requests :
        (/\ UpdateSession(request)
         /\ request.auth.outcome = "ok" /\ request.auth.user # NoUser
         /\ request.auth.age > maxSessionAge
         /\ resp'.status # 429) =>
            /\ resp'.status = 307
            /\ resp'.location = Location(pLogin, "session_expired", NoPath)
            /\ resp'.cookiesDeleted = SessionCookies
C10_OldSessionRejected == [][C10_Step]_vars

\* the response updateSession gives to a request in the current state
ResponseTo(request) == updateSession(request, rateLimitStore, now).response

\* the public prefixes as the claim lists them
C11_PublicPath(pathname) ==
    \E prefix \in {pLogin, pRegister, pAuth, pNext, pApiAuth} : StartsWith(pathname, prefix)

\* C11: a request that is not rate-limited and for which the provider reports no
\* user is redirected to /login with redirectTo set to the requested path, and
\* not passed on, when its path has none of the public prefixes; with a public
\* prefix it is passed on without a redirect.
C11_RouteProtection ==
    \A request \in Requests :
        LET r == ResponseTo(request)
        IN  (/\ r.status # 429
             /\ request.auth.outcome = "ok" /\ request.auth.user = NoUser) =>
                IF C11_PublicPath(request.pathname)
                THEN r.status = 200 /\ r.location = NoLocation
                ELSE r.status = 307 /\ r.location = Location(pLogin, None, request.pathname)

\* a request for a protected path was redirected to /login?redirectTo=<path>
C11_Witness ==
    /\ resp.status = 307
    /\ resp.location.pathname = pLogin /\ resp.location.error = None
    /\ resp.location.redirectTo \in {pPolls, pRoot}

\* C12: the 429 response is produced without a call of the identity provider,
\* without a cookie set or deleted and without the route being classified.
C12_RateLimitFirst ==
    \A request \in Requests :
        LET r == ResponseTo(request)
        IN  r.status = 429 =>
                /\ ~r.providerCalled
                /\ ~r.cookiesSet /\ r.cookiesDeleted = {}
                /\ ~r.routeClassified /\ r.location = NoLocation

\* a request was answered 429 and the provider had not been called for it
C12_Witness ==
    /\ resp.status = 429 /\ ~resp.providerCalled /\ ~resp.routeClassified
    /\ \E ip \in IpKeys : rateLimitStore[ip].count >= RATE_LIMIT_MAX_REQUESTS

\* C13: when the provider's getUser returns an error for a request that is not
\* rate-limited, the response is the redirect to /login?error=session_invalid
\* with the session cookies deleted, on public and protected paths alike and
\* whatever the age of the session.
C13_SessionInvalid ==
    \A request \in Requests :
        LET r == ResponseTo(request)
        IN  (r.status # 429 /\ request.auth.outcome = "error") =>
                /\ r.status = 307
                /\ r.location = Location(pLogin, "session_invalid", NoPath)
                /\ r.cookiesDeleted = SessionCookies
                /\ ~r.routeClassified

\* the redirect with error=session_invalid was given
C13_Witness ==
    /\ resp.status = 307 /\ resp.location.error = "session_invalid"
    /\ resp.cookiesDeleted = SessionCookies

\* C14 (as claimed): sanitizeHtml applied to a string it returned gives that
\* string back.
C14_Reapplied == (applied >= 1 /\ applied' = applied + 1) => text' = text
C14_SanitizeIdempotent == [][C14_Reapplied]_vars

\* the values a form carries under options[], as the caller sent them
SentOptions(formData) ==
    LET entries == SelectSeq(formData, LAMBDA e : e.key = "options[]")
    IN  [i \in DOMAIN entries |-> entries[i].value]

\* fewer than 2 entries, more than 10, or two entries equal after trimming and
\* lower-casing
BadOptions(formData) ==
    LET sent == SentOptions(formData)
    IN  \/ Len(sent) < 2
        \/ Len(sent) > 10
        \/ \E i, j \in DOMAIN sent :
              i < j /\ toLowerCase(trim(sent[i])) = toLowerCase(trim(sent[j]))
BadOptionsForms == {f \in Forms : BadOptions(f)}

\* C15: for every caller and every form whose options list has fewer than 2 or
\* more than 10 entries, or two entries equal after trimming and lower-casing,
\* createPoll returns an error and leaves the polls table as it was.
C15_BadOptionsRejected ==
    \A caller \in Creators, f \in BadOptionsForms :
        LET r == createPoll(f, caller, polls, Uuid(nextPollId), now)
        IN  r.error # Null /\ r.polls = polls

\* createPoll has refused eleven options while a poll exists
C15_Witness ==
    /\ last.op = "createPoll" /\ last.error = "Maximum 10 options allowed"
    /\ DOMAIN polls # {}

\* the votes cast without a user
AnonymousVotes == {v \in BagToSet(votes) : v.user_id = NoUser}

C16_AnonymousOnlyOnOpenPolls ==
    \A v \in AnonymousVotes :
        v.poll_id \in DOMAIN polls /\ ~polls[v.poll_id].require_authentication

C16_AnonymousRefused ==
    \A p \in DOMAIN polls, optionIndex \in OptionIndexInputs :
        polls[p].require_authentication => submitVoteCheck(p, optionIndex, NoUser, polls) # Null

C16_FlagKept ==
    \A p \in DOMAIN polls \cap DOMAIN polls' :
        polls'[p].require_authentication = polls[p].require_authentication

\* C16: every vote without a user is on a poll that does not require
\* authentication; submitVote by a caller without a user on a poll that requires
\* it is refused before the insert; and no step changes the
\* require_authentication of a poll that exists.
C16_NoAnonymousVoteOnProtectedPoll ==
    [](C16_AnonymousOnlyOnOpenPolls /\ C16_AnonymousRefused) /\ [][C16_FlagKept]_vars

\* a vote without a user is stored
C16_Witness == AnonymousVotes # {}

\* C17: for every caller and id, getPollByIdForEdit returns a poll only to an
\* authenticated caller who owns the poll or is an admin; without a user it
\* returns an error and does not query the polls table; to an authenticated
\* caller who neither owns the poll nor is an admin it returns poll = null and
\* the denial.
C17_EditOnlyByOwnerOrAdmin ==
    \A caller \in Callers, id \in PollIdInputs, storeFails \in BOOLEAN :
        \A lookup \in Lookups(caller) :
            LET r == getPollByIdForEdit(id, caller, lookup, polls, users, storeFails)
            IN  /\ r.hasData =>
                      /\ caller \in UserIds /\ id \in DOMAIN polls
                      /\ polls[id].user_id = caller \/ users[caller].is_admin
                      /\ r.data = <<PollRow(polls, id)>>
                /\ caller \notin UserIds => r.error # Null /\ ~r.hasData /\ ~r.storeRead
                /\ NonOwnerNonAdmin(caller, id) /\ ~storeFails =>
                      ~r.hasData /\ r.error = "You can only edit your own polls"

\* a user who neither owns the poll nor is an admin was refused the poll
C17_Witness ==
    /\ last.op = "getPollByIdForEdit" /\ last.error = "You can only edit your own polls"
    /\ ~last.hasData /\ last.pollId \in DOMAIN polls

\* C18: getAllPolls never throws; it returns data only to an authenticated
\* caller whose is_admin is true, and to every other caller an error and
\* data = null without querying the polls table.
C18_AllPollsOnlyForAdmin ==
    \A caller \in Callers, storeFails \in BOOLEAN :
        \A lookup \in Lookups(caller), rows \in NewestFirst(polls) :
            LET r == getAllPolls(caller, lookup, users, storeFails, rows)
            IN  /\ r.thrown = Null
                /\ r.value.hasData => IsAdmin(caller)
                /\ ~IsAdmin(caller) =>
                      r.value.error # Null /\ ~r.value.hasData /\ ~r.value.storeRead

\* an admin was given the polls, one at least
C18_Witness == last.op = "getAllPolls" /\ last.hasData /\ Len(last.data) >= 1

\* C19: when isUserAdmin is called with a user id and answers true, the user
\* with that id has is_admin = true.
C19_AdminStatusOfUserId ==
    (last.op = "isUserAdmin" /\ last.userId # NoUser /\ last.flag) => users[last.userId].is_admin

C20_AsSetOutside ==
    \A u \in DOMAIN users :
        users[u].is_admin = (u \in DOMAIN InitialUsers /\ InitialUsers[u].is_admin)

C20_IsAdminKept ==
    \A u \in DOMAIN users : u \in DOMAIN users' /\ users'[u].is_admin = users[u].is_admin

\* C20: no step of register, login, logout, createPoll, updatePoll, deletePoll
\* or submitVote changes the is_admin of a user, and in every reachable state
\* every user's is_admin is the value set outside the application: true for
\* the admin made in the dashboard, not true for every user who registered.
C20_IsAdminNotSettable == []C20_AsSetOutside /\ [][C20_IsAdminKept]_vars

\* an account was registered by a request that carried is_admin: true
C20_Witness ==
    /\ last.op = "register" /\ last.error = Null /\ last.flag
    /\ "carol" \in DOMAIN users

\* the messages signInWithPassword answers with
ProviderMessages == {"Invalid login credentials", "Email not confirmed"}

\* the users with, and without, the account of an address
WithAccount(us, a) == [u \in DOMAIN us \cup {a} |-> IF u \in DOMAIN us THEN us[u] ELSE Metadata(nAl, FALSE)]
WithoutAccount(us, a) == [u \in DOMAIN us \ {a} |-> us[u]]

C22_MalformedAsMissing ==
    \A caller \in UserIds, id \in PollIdInputs :
        (IsUuid(id) /\ id \notin DOMAIN polls) =>
            /\ deletePollCheck(BadId, caller, caller, polls, users)
                 = deletePollCheck(id, caller, caller, polls, users)
            /\ \A f \in UpdateForms :
                  updatePoll(BadId, f, caller, caller, polls, users, now).error
                    = updatePoll(id, f, caller, caller, polls, users, now).error

\* C23: updatePoll by the owner of an existing poll, with a form that carries a
\* valid question and 2 to 10 options[] entries, all different, returns no error
\* and stores the sanitized options, all of them in the order sent.
C23_OwnerUpdateKeepsOptions ==
    \A caller \in UserIds, id \in DOMAIN polls, f \in UpdateForms :
        (polls[id].user_id = caller /\ ~BadOptions(f)) =>
            LET r == updatePoll(id, f, caller, caller, polls, users, now)
            IN  /\ r.error = Null
                /\ r.polls[id].options = sanitizeArray(SentOptions(f))

\* the fields of a poll that are set at creation
CreationFields(poll) ==
    <<poll.user_id, poll.allow_multiple_votes, poll.require_authentication, poll.created_at>>

\* createPoll inserts a row only for a caller with a user, owned by that user,
\* and touches no other row
C24_CreatedByCaller ==
    \A caller \in Creators, f \in Forms :
        LET id == Uuid(nextPollId)
            r == createPoll(f, caller, polls, id, now)
        IN  IF r.error # Null THEN r.polls = polls
            ELSE /\ caller \in UserIds
                 /\ DOMAIN r.polls = DOMAIN polls \cup {id}
                 /\ r.polls[id].user_id = caller
                 /\ \A p \in DOMAIN polls : r.polls[p] = polls[p]

\* the update statement of updatePoll, applied to a table that holds the poll
\* and one poll more: the question, the options and updated_at of the addressed
\* row are written, nothing else
C24_UpdateStatement ==
    \A id \in DOMAIN polls, opts \in {<<sGo, sRust>>, <<sZig>>} :
        LET other == Uuid(nextPollId)
            table == InsertPoll(polls, other, [polls[id] EXCEPT !.user_id = "bob"], now)
            r == UpdatePollRow(table, id, qBest \o <<"?">>, opts, now + 1)
        IN  /\ DOMAIN r = DOMAIN table
            /\ r[other] = table[other]
            /\ CreationFields(r[id]) = CreationFields(polls[id])
            /\ r[id].question = qBest \o <<"?">> /\ r[id].options = opts
            /\ r[id].updated_at = now + 1

\* updatePoll as a whole leaves the creation fields of the addressed poll and
\* every other poll as they are
C24_UpdateKeeps ==
    \A caller \in Updaters, id \in PollIdInputs, f \in UpdateForms :
        \A lookup \in Lookups(caller) :
            LET r == updatePoll(id, f, caller, lookup, polls, users, now)
            IN  /\ DOMAIN r.polls = DOMAIN polls
                /\ \A p \in DOMAIN polls :
                      /\ CreationFields(r.polls[p]) = CreationFields(polls[p])
                      /\ p # id => r.polls[p] = polls[p]

\* no step changes the creation fields of a poll that stays, and a step that
\* changes a row of a poll that stays leaves the votes
C24_FieldsKept ==
    /\ \A p \in DOMAIN polls \cap DOMAIN polls' :
          CreationFields(polls'[p]) = CreationFields(polls[p])
    /\ (\E p \in DOMAIN polls \cap DOMAIN polls' : polls'[p] # polls[p]) => votes' = votes

\* C24: createPoll inserts a row only for an authenticated caller, with user_id
\* the caller's id; no later step changes a poll's user_id,
\* allow_multiple_votes, require_authentication or created_at; updatePoll
\* writes question, options and updated_at of the addressed poll only, and
\* leaves every other poll and every vote.
C24_OwnershipFixed ==
    [](C24_CreatedByCaller /\ C24_UpdateStatement /\ C24_UpdateKeeps) /\ [][C24_FieldsKept]_vars

\* a poll open to anonymous voters exists, owned by its creator and voted on,
\* and an updatePoll on it has returned
C24_Witness ==
    /\ last.op = "updatePoll" /\ last.pollId \in DOMAIN polls
    /\ polls[last.pollId].user_id = "alice"
    /\ ~polls[last.pollId].require_authentication
    /\ votes # EmptyBag

\* the bounds of the schemas, on a row of the polls table
WithinBounds(poll) ==
    /\ Len(poll.question) >= QUESTION_MIN_LEN /\ Len(poll.question) <= QUESTION_MAX_LEN
    /\ Len(poll.options) >= OPTIONS_MIN /\ Len(poll.options) <= OPTIONS_MAX
    /\ \A i \in DOMAIN poll.options :
          Len(poll.options[i]) >= 1 /\ Len(poll.options[i]) <= OPTION_MAX_LEN
    /\ \A i, j \in DOMAIN poll.options :
          i < j => toLowerCase(poll.options[i]) # toLowerCase(poll.options[j])

\* C25: every poll that createPoll or updatePoll stores has a question of 5 to
\* 500 characters and 2 to 10 options of 1 to 200 characters each, all
\* different ignoring case, as stored.
C25_StoredWithinBounds ==
    /\ \A p \in DOMAIN polls : WithinBounds(polls[p])
    /\ \A caller \in Creators, f \in Forms \cup LongForms :
          LET r == createPoll(f, caller, polls, Uuid(nextPollId), now)
          IN  \A p \in DOMAIN r.polls : WithinBounds(r.polls[p])

\* a step that answers a request counts it in the rate limiter
C27_Counted ==
    resp' # resp => (handled' # handled \/ rateLimitStore' # rateLimitStore)

\* C27: the matcher selects every page and action path, /login and /register
\* among them, and every request that is answered has been counted by the rate
\* limiter of updateSession.
C27_NoBypass ==
    [](\A request \in Requests : matcher(request.pathname)) /\ [][C27_Counted]_vars

\* the request a client makes when it follows a redirect: the same address,
\* the target's path, whatever the provider answers then
Follow(request, response) ==
    {[request EXCEPT !.pathname = response.location.pathname, !.auth = x] : x \in AuthInputs}

\* C29: every redirect of the middleware goes to /login, and the request that
\* follows it is not redirected again, whatever the session is by then.
C29_RedirectsTerminate ==
    \A request \in Requests :
        LET first == middleware(request, rateLimitStore, now)
        IN  first.response.status = 307 =>
                /\ first.response.location.pathname = pLogin
                /\ \A next \in Follow(request, first.response) :
                      middleware(next, first.store, now).response.status # 307

\* a request was redirected for an error of the provider
C29_Witness ==
    /\ resp.status = 307 /\ resp.location.pathname = pLogin
    /\ resp.location.error = "session_invalid"

\* C28: a request that checkRateLimit rejects leaves the whole store as it was;
\* a request after resetTime is allowed and opens a window with count 1; a
\* request at resetTime is judged by the count of the old window, which stays.
C28_RejectedLeavesStore ==
    \A ip \in IpKeys :
        LET record == rateLimitStore[ip]
            r == checkRateLimit(ip, rateLimitStore, now)
        IN  /\ ~r.allowed => r.store = rateLimitStore
            /\ \A other \in IpKeys \ {ip} : r.store[other] = rateLimitStore[other]
            /\ (record # NoRecord /\ now > record.resetTime) =>
                  /\ r.allowed
                  /\ r.store[ip] = [count |-> 1, resetTime |-> now + RATE_LIMIT_WINDOW]
            /\ (record # NoRecord /\ now = record.resetTime) =>
                  /\ r.allowed = (record.count < RATE_LIMIT_MAX_REQUESTS)
                  /\ r.store[ip].resetTime = record.resetTime
                  /\ r.store[ip].count = IF r.allowed THEN record.count + 1 ELSE record.count

\* a request was rejected at the very resetTime of a full window
C28_Witness ==
    /\ resp.status = 429
    /\ \E ip \in IpKeys :
          /\ rateLimitStore[ip] # NoRecord
          /\ now = rateLimitStore[ip].resetTime
          /\ rateLimitStore[ip].count = RATE_LIMIT_MAX_REQUESTS
          /\ handled[ip] > RATE_LIMIT_MAX_REQUESTS

\* the requests of ip that passed at the instants from a up to, not
\* including, a + 15 minutes
RECURSIVE SumPassed(_, _)
SumPassed(ip, instants) ==
    IF instants = {} THEN 0
    ELSE LET t == CHOOSE x \in instants : TRUE
         IN  passed[ip][t] + SumPassed(ip, instants \ {t})
PassedFrom(ip, a) ==
    SumPassed(ip, {t \in TimePoints : a <= t /\ t < a + RATE_LIMIT_WINDOW})

\* C26: in every interval of 15 minutes, wherever it begins, at most 100
\* requests of one IP pass checkRateLimit.
C26_SlidingWindow ==
    \A ip \in LimitedIps, a \in TimePoints : PassedFrom(ip, a) <= RATE_LIMIT_MAX_REQUESTS

\* a step in which deletePoll returns an error changes neither store, and the
\* call that returns has removed no vote before
C30_Step ==
    (last'.op = "deletePoll" /\ last'.error # Null) =>
        /\ polls' = polls /\ votes' = votes
        /\ \A c \in Slots :
              (calls[c].op = "deletePoll" /\ calls'[c] = Idle) => ~calls[c].removed

\* C30: whenever deletePoll returns an error, the polls and the votes are as
\* they were when it was called: the call has removed nothing.
C30_AllOrNothing == [][C30_Step]_vars
====
